---------------------------- MODULE Spec2Model ----------------------------
(***************************************************************************)
(* Weekly staff rostering (suchitra44/AIML, src/rostering).                *)
(*                                                                         *)
(* The repository holds three variants of the rostering script:            *)
(*   roster_v2.py  (the most developed one), mod.py and fileOne.py.        *)
(* Each reads an availability table, creates one boolean decision variable *)
(* per eligible (staff, day, shift), adds constraints, minimises a penalty *)
(* objective with CP-SAT and writes the roster.  The variable `variant`    *)
(* says which script runs; every definition below carries the suffix of    *)
(* the script it is translated from (_v2, _mod, _f1).                      *)
(*                                                                         *)
(* Units.  Times of day are centi-hours (5:30 = 550, 16:45 = 1675).        *)
(* Shift durations are the code's int(hours*1000) (8 h = 8000).  Pay rates *)
(* are cents per hour, so the code's int(rate*1000) is 10 * rate here and  *)
(* the cost constraint  sum(var*int(h*1000)*int(rate*1000)) <= C*1_000_000 *)
(* is checked as  sum(var*h*rate) <= C*100000  (both sides divided by 10,  *)
(* which keeps every number below 2^31).  All catalogue values are exact   *)
(* in binary floating point, so the int() truncations lose nothing.        *)
(***************************************************************************)
EXTENDS Integers, Sequences, FiniteSets, Bags, TLC

VARIABLES
    variant,        \* which script runs: "roster_v2", "mod" or "fileOne"
    maxWeeklyCost,  \* MAX_WEEKLY_COST, the configured weekly cost ceiling ($)
    df,             \* the availability table: a sequence of staff rows
    x,              \* the decision variables: a set of <<staff, day, shift>>
    model,          \* the CpModel: its constraints and its penalty terms
    pc,             \* position of the script
    status,         \* what solver.Solve(model) returned
    sol,            \* the decision variables the solver set to 1
    deadlinePassed, \* a wall-clock deadline of the caller passed during Solve
    roster,         \* the records appended to the roster list
    report,         \* roster_v2's daily summary and weekly totals
    written         \* whether generated_roster.xlsx was written

vars == <<variant, maxWeeklyCost, df, x, model, pc, status, sol, deadlinePassed,
          roster, report, written>>

-----------------------------------------------------------------------------
(* Bounds of the model.                                                    *)

\* Rows of the availability table.
MaxStaff == 2

\* Decision variables of one instance (the solver is modelled by
\* enumerating SUBSET x).
MaxVars == 11

\* Rows of the one-day tables with which the daily headcount is driven to
\* its tier minimum (10 on a Green day).
MaxCrowd == 11

-----------------------------------------------------------------------------
(* PARAMETERS                                                              *)

days == <<"Mon", "Tue", "Wed", "Thu", "Fri", "Sat", "Sun">>

Days == {days[i] : i \in 1..Len(days)}

Variants == {"roster_v2", "mod", "fileOne"}

\* to_hour(v) of an empty cell (pd.isna): None.
NaN == -1

\* roster_v2.py: name -> (start, end, hours).
shifts_v2 ==
    [ShiftA |-> <<550, 1350, 8000>>,
     ShiftB |-> <<700, 1400, 7000>>,
     ShiftC |-> <<1675, 2150, 4750>>,
     ShiftD |-> <<1400, 2150, 7500>>]

flexible_shift_v2 == <<800, 1300, 5000>>

manager_shifts_v2 ==
    [Morn_Manager |-> <<550, 1350, 8000>>,
     Aft_Manager  |-> <<1350, 2150, 8000>>]

\* mod.py: name -> (start, end), and the hours tables.
shifts_mod ==
    [ShiftA |-> <<550, 1350>>,
     ShiftB |-> <<700, 1400>>,
     ShiftC |-> <<1675, 2150>>]

shift_hours_mod == [ShiftA |-> 8000, ShiftB |-> 7000, ShiftC |-> 4750]

flexible_shift_mod == <<800, 1300>>

flex_hours_mod == 5000

manager_shifts_mod ==
    [Morn_Manager |-> <<550, 1350>>,
     Aft_Manager  |-> <<1350, 2150>>]

manager_shift_hours_mod == [Morn_Manager |-> 8000, Aft_Manager |-> 8000]

\* fileOne.py.
shifts_f1 ==
    [ShiftA |-> <<550, 1350>>,
     ShiftB |-> <<700, 1400>>,
     ShiftC |-> <<1675, 2150>>]

shift_hours_f1 == [ShiftA |-> 8000, ShiftB |-> 7000, ShiftC |-> 4750]

flexible_shift_f1 == <<800, 1300>>

manager_shifts_f1 ==
    [Morn_Manager |-> <<550, 1350>>,
     Aft_Manager  |-> <<1350, 2150>>]

\* The same table in the three scripts.
day_demand ==
    [Mon |-> "Red", Tue |-> "Yellow", Wed |-> "Red", Thu |-> "Green",
     Fri |-> "Red", Sat |-> "Yellow", Sun |-> "Green"]

\* roster_v2.py: tier -> shift -> role -> required headcount.
staffing_rules ==
    [Red    |-> [ShiftA |-> [FOH |-> 1],
                 ShiftB |-> [FOH |-> 2, BOH |-> 2],
                 ShiftC |-> [FOH |-> 2, BOH |-> 1],
                 ShiftD |-> [FOH |-> 1]],
     Yellow |-> [ShiftA |-> [FOH |-> 1],
                 ShiftB |-> [FOH |-> 2, BOH |-> 1],
                 ShiftC |-> [FOH |-> 2, BOH |-> 1],
                 ShiftD |-> [FOH |-> 1, BOH |-> 1]],
     Green  |-> [ShiftA |-> [FOH |-> 1],
                 ShiftB |-> [FOH |-> 2, BOH |-> 1],
                 ShiftC |-> [FOH |-> 2, BOH |-> 1],
                 ShiftD |-> [FOH |-> 1, BOH |-> 1]]]

\* Age -> hourly rate in cents; the same table in the three scripts.
crew_pay_by_age ==
    [a \in 16..25 |->
        CASE a = 16 -> 1200 [] a = 17 -> 1250 [] a = 18 -> 1300
          [] a = 19 -> 1350 [] a = 20 -> 1400 [] a = 21 -> 1500
          [] a = 22 -> 1600 [] a = 23 -> 1700 [] a = 24 -> 1800
          [] a = 25 -> 1900]

\* crew_pay_by_age.get(age, 18)
CrewRate(age) ==
    IF age \in DOMAIN crew_pay_by_age THEN crew_pay_by_age[age] ELSE 1800

\* manager_pay, cents per hour.
manager_pay == 3000

\* manager_weekend_multiplier, in tenths: {'Sat': 1.2, 'Sun': 1.5}.
manager_weekend_multiplier == [Sat |-> 12, Sun |-> 15]

\* manager_pay * manager_weekend_multiplier.get(day, 1), cents per hour.
ManagerRate(day) ==
    IF day \in DOMAIN manager_weekend_multiplier
    THEN (manager_pay * manager_weekend_multiplier[day]) \div 10
    ELSE manager_pay

\* Crew max hours per week.
MAX_WEEKLY_HOURS == 38

\* MAX_WEEKLY_COST as the scripts set it ($).
MAX_WEEKLY_COST == 20000

\* roster_v2.py
UNCOVERED_PENALTY == 1000000

UNDERSTAFFED_SHIFT_PENALTY == 10000

UNDERSTAFFED_DAY_PENALTY == 5000

\* mod.py
UNCOVERED_MANAGER_PENALTY == 1000000

\* fileOne.py
UNCOVERED_PENALTY_f1 == 1000000

\* fileOne.py: pref_hours = 70 (mod.py writes the literal 70).
pref_hours == 70

-----------------------------------------------------------------------------
(* Helpers                                                                 *)

RECURSIVE SumFn(_, _)
\* sum(f[e] for e in S)
SumFn(f, S) ==
    IF S = {} THEN 0
    ELSE LET e == CHOOSE e \in S : TRUE
         IN  f[e] + SumFn(f, S \ {e})

\* sum(F(e) for e in S)
Sum(S, F(_)) == SumFn([e \in S |-> F(e)], S)

Abs(n) == IF n < 0 THEN -n ELSE n

Min(S) == CHOOSE m \in S : \A n \in S : m <= n

\* df['Staff']
StaffOf(table) == {table[i].Staff : i \in 1..Len(table)}

\* df[df['Staff'] == s].iloc[0]
RowOf(table, s) ==
    table[CHOOSE i \in 1..Len(table) :
            /\ table[i].Staff = s
            /\ \A j \in 1..(i - 1) : table[j].Staff # s]

-----------------------------------------------------------------------------
(* VARIABLE GENERATION                                                     *)

\* Fits_v2 with the end of the window left unchecked.
Fits_v2_StartOnly(start, end, shift) == start <= shift[1]

\* roster_v2.py: "if start <= c_start and end >= c_end"
Fits_v2(start, end, shift) == start <= shift[1] /\ end >= shift[2]

\* mod.py: "if a >= start and b <= end"
Fits_mod(start, end, shift) == shift[1] >= start /\ shift[2] <= end

\* fileOne.py: "if s_start >= day_start and s_end <= day_end" for crew and
\* Flex, "if day_start <= m_start and day_end >= m_end" for manager shifts.
Fits_f1(start, end, shift) == shift[1] >= start /\ shift[2] <= end

\* roster_v2.py, the body of "for day in days" for one row.
RowDayVars_v2(row, day) ==
    LET start == row.start[day]
        end   == row.end[day]
    IN  IF start = NaN \/ end = NaN THEN {}
        ELSE IF row.Role \in {"Manager", "Manger", "RM"}
        THEN {<<row.Staff, day, m>> :
                m \in {m \in DOMAIN manager_shifts_v2 :
                         Fits_v2(start, end, manager_shifts_v2[m])}}
        ELSE {<<row.Staff, day, c>> :
                c \in {c \in DOMAIN shifts_v2 :
                         Fits_v2(start, end, shifts_v2[c])}}
             \cup (IF row.Role = "Both"
                      /\ Fits_v2(start, end, flexible_shift_v2)
                   THEN {<<row.Staff, day, "Flex">>} ELSE {})

\* mod.py, the body of "for day in days" for one row.
RowDayVars_mod(row, day) ==
    LET start == row.start[day]
        end   == row.end[day]
    IN  IF start = NaN \/ end = NaN THEN {}
        ELSE {<<row.Staff, day, s>> :
                s \in {s \in DOMAIN shifts_mod :
                         Fits_mod(start, end, shifts_mod[s])}}
             \cup (IF row.Role = "Both"
                      /\ day_demand[day] \in {"Yellow", "Green"}
                      /\ Fits_mod(start, end, flexible_shift_mod)
                   THEN {<<row.Staff, day, "Flex">>} ELSE {})
             \cup (IF row.Role = "Manager"
                   THEN {<<row.Staff, day, m>> :
                           m \in {m \in DOMAIN manager_shifts_mod :
                                    Fits_mod(start, end, manager_shifts_mod[m])}}
                   ELSE {})

\* fileOne.py, the body of "for day in days" for one row.
RowDayVars_f1(row, day) ==
    LET start == row.start[day]
        end   == row.end[day]
    IN  IF start = NaN \/ end = NaN THEN {}
        ELSE {<<row.Staff, day, s>> :
                s \in {s \in DOMAIN shifts_f1 :
                         Fits_f1(start, end, shifts_f1[s])}}
             \cup (IF row.Role = "Both"
                      /\ day_demand[day] \in {"Yellow", "Green"}
                      /\ Fits_f1(start, end, flexible_shift_f1)
                   THEN {<<row.Staff, day, "Flex">>} ELSE {})
             \cup (IF row.Role = "Manager"
                   THEN {<<row.Staff, day, m>> :
                           m \in {m \in DOMAIN manager_shifts_f1 :
                                    Fits_f1(start, end, manager_shifts_f1[m])}}
                   ELSE {})

\* The keys of x after "for _, row in df.iterrows()".
CreateVars(v, table) ==
    UNION {CASE v = "roster_v2" -> RowDayVars_v2(table[i], d)
             [] v = "mod"       -> RowDayVars_mod(table[i], d)
             [] v = "fileOne"   -> RowDayVars_f1(table[i], d) :
           i \in 1..Len(table), d \in Days}

-----------------------------------------------------------------------------
(* The inputs explored.                                                    *)

\* Staff records of the table: role, age, a window w and the days it is
\* given on, a second window w2 and its days (the other days' cells are
\* empty).
Profiles ==
    <<[Role |-> "Manager", Age |-> 30, w |-> <<550, 1350>>, on |-> Days \ {"Sun"},
       w2 |-> <<NaN, NaN>>, on2 |-> {}],
      [Role |-> "Manager", Age |-> 30, w |-> <<500, 2200>>, on |-> {"Mon"},
       w2 |-> <<NaN, NaN>>, on2 |-> {}],
      [Role |-> "Manager", Age |-> 30, w |-> <<500, 2200>>, on |-> {"Sun"},
       w2 |-> <<NaN, NaN>>, on2 |-> {}],
      [Role |-> "RM",      Age |-> 30, w |-> <<550, 1350>>, on |-> Days \ {"Sun"},
       w2 |-> <<NaN, NaN>>, on2 |-> {}],
      [Role |-> "FOH",     Age |-> 20, w |-> <<550, 1350>>, on |-> Days \ {"Sun"},
       w2 |-> <<NaN, NaN>>, on2 |-> {}],
      [Role |-> "FOH",     Age |-> 20, w |-> <<500, 2200>>, on |-> {"Mon"},
       w2 |-> <<NaN, NaN>>, on2 |-> {}],
      [Role |-> "BOH",     Age |-> 30, w |-> <<500, NaN>>,  on |-> {"Mon"},
       w2 |-> <<NaN, NaN>>, on2 |-> {}],
      [Role |-> "BOH",     Age |-> 17, w |-> <<1400, 2150>>, on |-> {"Sat", "Sun"},
       w2 |-> <<NaN, NaN>>, on2 |-> {}],
      [Role |-> "Both",    Age |-> 30, w |-> <<500, 2200>>, on |-> {"Mon"},
       w2 |-> <<NaN, NaN>>, on2 |-> {}],
      [Role |-> "Both",    Age |-> 20, w |-> <<800, 1300>>, on |-> {"Mon", "Thu"},
       w2 |-> <<NaN, NaN>>, on2 |-> {}],
      [Role |-> "Both",    Age |-> 20, w |-> <<700, 1400>>, on |-> Days \ {"Thu", "Sun"},
       w2 |-> <<800, 1300>>, on2 |-> {"Thu"}],
      [Role |-> "Trainee", Age |-> 20, w |-> <<550, 1350>>, on |-> {"Mon"},
       w2 |-> <<NaN, NaN>>, on2 |-> {}]>>

StaffName(i) ==
    <<"s1", "s2", "s3", "s4", "s5", "s6", "s7", "s8", "s9", "s10", "s11", "s12",
      "s13", "s14">>[i]

\* The row of the table for the staff record q, named StaffName(i).
ProfileRow(i, q) ==
    [Staff |-> StaffName(i),
     Role  |-> q.Role,
     Age   |-> q.Age,
     start |-> [d \in Days |-> IF d \in q.on THEN q.w[1]
                                ELSE IF d \in q.on2 THEN q.w2[1]
                                ELSE NaN],
     end   |-> [d \in Days |-> IF d \in q.on THEN q.w[2]
                                ELSE IF d \in q.on2 THEN q.w2[2]
                                ELSE NaN]]

\* The row of the table for profile p, named StaffName(i).
Row(i, p) == ProfileRow(i, Profiles[p])

\* Tables of at most MaxStaff rows; the order of the rows does not matter to
\* any script, so the profiles are taken in non-decreasing order.
Tables ==
    UNION {{[i \in 1..n |-> Row(i, ps[i])] :
              ps \in {q \in [1..n -> 1..Len(Profiles)] :
                        \A i \in 1..(n - 1) : q[i] <= q[i + 1]}} :
           n \in 0..MaxStaff}

\* Staff records of the one-day tables: everybody is available on Thursday
\* (Green) only, a manager and an FOH member for the morning shift, the
\* Both-role members for the Flex window.
CrowdProfiles ==
    [Manager |-> [Role |-> "Manager", Age |-> 30, w |-> <<550, 1350>>,
                  on |-> {"Thu"}, w2 |-> <<NaN, NaN>>, on2 |-> {}],
     FOH     |-> [Role |-> "FOH", Age |-> 20, w |-> <<550, 1350>>,
                  on |-> {"Thu"}, w2 |-> <<NaN, NaN>>, on2 |-> {}],
     Both    |-> [Role |-> "Both", Age |-> 20, w |-> <<800, 1300>>,
                  on |-> {"Thu"}, w2 |-> <<NaN, NaN>>, on2 |-> {}]]

\* Tables of at most MaxCrowd rows: m managers, f FOH members and b
\* Both-role members.
CrowdTables ==
    {[i \in 1..(c[1] + c[2] + c[3]) |->
         ProfileRow(i, IF i <= c[1] THEN CrowdProfiles.Manager
                       ELSE IF i <= c[1] + c[2] THEN CrowdProfiles.FOH
                       ELSE CrowdProfiles.Both)] :
       c \in {u \in (0..1) \X (0..1) \X (0..MaxCrowd) :
                 u[1] + u[2] + u[3] <= MaxCrowd}}

\* Values of the weekly cost ceiling explored; the scripts set 20000.
Ceilings == {-1, 0, 300, MAX_WEEKLY_COST}

EmptyReport == [daily |-> <<>>, total_hours |-> 0, total_cost |-> 0]

\* model = cp_model.CpModel()
EmptyModel == [hard |-> {}, soft |-> {}]

Init ==
    /\ variant \in Variants
    /\ maxWeeklyCost \in Ceilings
    /\ df \in Tables
    /\ Cardinality(CreateVars(variant, df)) <= MaxVars
    /\ x = {}
    /\ model = EmptyModel
    /\ pc = "Read"
    /\ status = "NONE"
    /\ sol = {}
    /\ deadlinePassed = FALSE
    /\ roster = {}
    /\ report = EmptyReport
    /\ written = FALSE

-----------------------------------------------------------------------------
(* The CpModel.  A decision variable is its key in x; an assignment `a` is *)
(* the set of decision variables set to 1.                                 *)
(*                                                                         *)
(* model.hard holds the linear constraints  sum(coef[k] * k) <= ub.        *)
(* model.soft holds the penalty terms: each has a slack variable with      *)
(* domain lo..hi that the script ties to the decision variables by         *)
(*    form "short":  target - sum(coef[k] * k) == slack                    *)
(*    form "abs":    slack == |sum(coef[k] * k) - target|                  *)
(* and adds  slack * weight  to the list of penalties.  tied = FALSE       *)
(* records a slack variable that no constraint mentions.                   *)

Ones(S) == [k \in S |-> 1]

\* sum(coef[k] * k): every coefficient the scripts give a decision variable
\* is positive (1, hours, hours * rate), so the sum over the variables set
\* to 1 is the size of the bag of their coefficients.
LinearSum(coef, a) ==
    LET D == a \cap DOMAIN coef
    IN  IF D = {} THEN 0 ELSE BagCardinality([k \in D |-> coef[k]])

Role_(s) == RowOf(df, s).Role

Age_(s) == RowOf(df, s).Age

\* df[df['Role'] == role]['Staff']
StaffWithRole(role) == {df[i].Staff : i \in {j \in 1..Len(df) : df[j].Role = role}}

ManagerPairs == {<<d, m>> : d \in Days, m \in {"Morn_Manager", "Aft_Manager"}}

-----------------------------------------------------------------------------
(* roster_v2.py: constraints.                                              *)

\* OneShiftPerDay_v2 with the constraint loop left out.
OneShiftPerDay_v2_Dropped == {}

\* 1. One shift per person per day.
OneShiftPerDay_v2 ==
    {[name |-> "one_shift", key |-> t,
      coef |-> Ones({k \in x : k[1] = t[1] /\ k[2] = t[2]}), ub |-> 1] :
        t \in {u \in StaffOf(df) \X Days :
                 {k \in x : k[1] = u[1] /\ k[2] = u[2]} # {}}}

\* get_candidates with the Both role left out of the two lists.
get_candidates_RoleOnly(day, shift, role_type) ==
    CASE role_type = "FOH" ->
            {k \in x : k[2] = day /\ k[3] = shift /\ Role_(k[1]) = "FOH"}
      [] role_type = "BOH" ->
            {k \in x : k[2] = day /\ k[3] = shift /\ Role_(k[1]) = "BOH"}
      [] OTHER -> {}

\* Helper to get FOH/BOH candidates (includes 'Both' for all shifts).
get_candidates(day, shift, role_type) ==
    CASE role_type = "FOH" ->
            {k \in x : k[2] = day /\ k[3] = shift /\ Role_(k[1]) \in {"FOH", "Both"}}
      [] role_type = "BOH" ->
            {k \in x : k[2] = day /\ k[3] = shift /\ Role_(k[1]) \in {"BOH", "Both"}}
      [] OTHER -> {}

\* "candidates" of the four loops over required[shift].items().
SlotCandidates_v2(day, shift, role_type) ==
    IF shift = "ShiftA" /\ role_type = "Manager"
    THEN {k \in x : k[2] = day /\ k[3] = "Morn_Manager"}
    ELSE IF role_type \in {"FOH", "BOH"}
    THEN get_candidates(day, shift, role_type)
    ELSE {}

\* The (day, shift, role_type) the four loops of one day go through.
RequiredSlots ==
    UNION {UNION {{<<d, sh, r>> : r \in DOMAIN staffing_rules[day_demand[d]][sh]} :
                    sh \in DOMAIN staffing_rules[day_demand[d]]} :
           d \in Days}

\* Understaffed_v2 with the slack left out of the equality.
Understaffed_v2_Untied ==
    {[name |-> "understaffed", key |-> t,
      coef |-> Ones(SlotCandidates_v2(t[1], t[2], t[3])),
      target |-> staffing_rules[day_demand[t[1]]][t[2]][t[3]], form |-> "short",
      lo |-> 0, hi |-> staffing_rules[day_demand[t[1]]][t[2]][t[3]],
      weight |-> UNDERSTAFFED_SHIFT_PENALTY, tied |-> FALSE] :
        t \in {u \in RequiredSlots : SlotCandidates_v2(u[1], u[2], u[3]) # {}}}

\* 2. Staffing requirements per shift: "if candidates:" an understaffed
\* variable in 0..count with count - sum(candidates) == understaffed.
Understaffed_v2 ==
    {[name |-> "understaffed", key |-> t,
      coef |-> Ones(SlotCandidates_v2(t[1], t[2], t[3])),
      target |-> staffing_rules[day_demand[t[1]]][t[2]][t[3]], form |-> "short",
      lo |-> 0, hi |-> staffing_rules[day_demand[t[1]]][t[2]][t[3]],
      weight |-> UNDERSTAFFED_SHIFT_PENALTY, tied |-> TRUE] :
        t \in {u \in RequiredSlots : SlotCandidates_v2(u[1], u[2], u[3]) # {}}}

\* min_staff_req with the Green minimum on every day.
min_staff_req_Flat(day) == 10

\* Minimum staff per day, by the demand tier of the day.
min_staff_req(day) ==
    CASE day_demand[day] = "Red"    -> 14
      [] day_demand[day] = "Yellow" -> 12
      [] day_demand[day] = "Green"  -> 10
      [] OTHER -> 10

\* MinStaffShort_v2 with the daily minimum left out of the model.
MinStaffShort_v2_Dropped == {}

\* MinStaffShort_v2 with the slack left out of the equality.
MinStaffShort_v2_Untied ==
    {[name |-> "min_staff_short", key |-> <<d>>,
      coef |-> Ones({k \in x : k[2] = d}),
      target |-> min_staff_req(d), form |-> "short",
      lo |-> 0, hi |-> min_staff_req(d),
      weight |-> UNDERSTAFFED_DAY_PENALTY, tied |-> FALSE] : d \in Days}

\* Minimum staff per day: min_staff_req - sum(staff_today) == min_staff_short.
MinStaffShort_v2 ==
    {[name |-> "min_staff_short", key |-> <<d>>,
      coef |-> Ones({k \in x : k[2] = d}),
      target |-> min_staff_req(d), form |-> "short",
      lo |-> 0, hi |-> min_staff_req(d),
      weight |-> UNDERSTAFFED_DAY_PENALTY, tied |-> TRUE] : d \in Days}

\* RMWeekly_v2 with the bound one too high.
RMWeekly_v2_SixDays ==
    {[name |-> "rm_weekly", key |-> <<s>>,
      coef |-> Ones({k \in x : k[1] = s}), ub |-> 6] :
        s \in {r \in StaffWithRole("RM") : {k \in x : k[1] = r} # {}}}

\* 3. RM weekly constraint: at most 5 days.
RMWeekly_v2 ==
    {[name |-> "rm_weekly", key |-> <<s>>,
      coef |-> Ones({k \in x : k[1] = s}), ub |-> 5] :
        s \in {r \in StaffWithRole("RM") : {k \in x : k[1] = r} # {}}}

\* The hours of one variable in "4. Crew max 38 hours/week": int(h * 1000).
CrewHours_v2(k) ==
    IF k[3] \in DOMAIN shifts_v2 THEN shifts_v2[k[3]][3] ELSE flexible_shift_v2[3]

\* 4. Crew max 38 hours/week (exclude managers and RMs).
CrewMaxHours_v2 ==
    {[name |-> "crew_hours", key |-> <<s>>,
      coef |-> [k \in {k \in x : k[1] = s /\ (k[3] \in DOMAIN shifts_v2 \/ k[3] = "Flex")}
                  |-> CrewHours_v2(k)],
      ub |-> MAX_WEEKLY_HOURS * 1000] :
        s \in {r \in {df[i].Staff : i \in {j \in 1..Len(df) :
                        df[j].Role # "Manager" /\ df[j].Role # "RM"}} :
                 {k \in x : k[1] = r /\ (k[3] \in DOMAIN shifts_v2 \/ k[3] = "Flex")} # {}}}

\* int(hours * 1000) of one variable in the cost constraint.
CostHours_v2(k) ==
    IF k[3] \in DOMAIN manager_shifts_v2 THEN manager_shifts_v2[k[3]][3]
    ELSE IF k[3] = "Flex" THEN flexible_shift_v2[3]
    ELSE shifts_v2[k[3]][3]

\* rate of one variable in the cost constraint, cents.
CostRate_v2(k) ==
    IF k[3] \in DOMAIN manager_shifts_v2 THEN ManagerRate(k[2])
    ELSE CrewRate(Age_(k[1]))

\* CostConstraint_v2 with the ceiling never added to the model.
CostConstraint_v2_Dropped == {}

\* model.Add(sum(cost_terms) <= MAX_WEEKLY_COST * 1_000_000)
CostConstraint_v2 ==
    {[name |-> "cost", key |-> <<>>,
      coef |-> [k \in x |-> CostHours_v2(k) * CostRate_v2(k)],
      ub |-> maxWeeklyCost * 100000]}

\* ManagerCoverage_v2 with the coverage weight below the staffing weights.
ManagerCoverage_v2_LowWeight ==
    {[name |-> "uncovered", key |-> p,
      coef |-> Ones({k \in x : k[2] = p[1] /\ k[3] = p[2]}),
      target |-> 1, form |-> "short", lo |-> 0, hi |-> 1,
      weight |-> 1000,
      tied |-> {k \in x : k[2] = p[1] /\ k[3] = p[2]} # {}] : p \in ManagerPairs}

\* Manager coverage (soft): u = NewBoolVar;
\* "if vars_m: model.Add(sum(vars_m) + u == 1)"; penalties.append(u * ...).
ManagerCoverage_v2 ==
    {[name |-> "uncovered", key |-> p,
      coef |-> Ones({k \in x : k[2] = p[1] /\ k[3] = p[2]}),
      target |-> 1, form |-> "short", lo |-> 0, hi |-> 1,
      weight |-> UNCOVERED_PENALTY,
      tied |-> {k \in x : k[2] = p[1] /\ k[3] = p[2]} # {}] : p \in ManagerPairs}

Model_v2 ==
    [hard |-> OneShiftPerDay_v2 \cup RMWeekly_v2 \cup CrewMaxHours_v2
                \cup CostConstraint_v2,
     soft |-> Understaffed_v2 \cup MinStaffShort_v2 \cup ManagerCoverage_v2]

-----------------------------------------------------------------------------
(* mod.py: constraints.                                                    *)

\* ONE SHIFT PER DAY PER STAFF
OneShiftPerDay_mod ==
    {[name |-> "one_shift", key |-> t,
      coef |-> Ones({k \in x : k[1] = t[1] /\ k[2] = t[2]}), ub |-> 1] :
        t \in {u \in StaffOf(df) \X Days :
                 {k \in x : k[1] = u[1] /\ k[2] = u[2]} # {}}}

\* MANAGER COVERAGE (SOFT): model.Add(sum(vars_m) + u == 1) for every pair.
ManagerCoverage_mod ==
    {[name |-> "uncovered", key |-> p,
      coef |-> Ones({k \in x : k[2] = p[1] /\ k[3] = p[2]}),
      target |-> 1, form |-> "short", lo |-> 0, hi |-> 1,
      weight |-> UNCOVERED_MANAGER_PENALTY, tied |-> TRUE] : p \in ManagerPairs}

\* Manager weekly limit
ManagerWeekly_mod ==
    {[name |-> "manager_weekly", key |-> <<m>>,
      coef |-> Ones({k \in x : k[1] = m /\ k[3] \in DOMAIN manager_shifts_mod}),
      ub |-> 4] :
        m \in {r \in StaffWithRole("Manager") :
                 {k \in x : k[1] = r /\ k[3] \in DOMAIN manager_shifts_mod} # {}}}

\* int(hours*1000) of one variable (cost constraint and weekly hours).
Hours_mod(k) ==
    IF k[3] \in DOMAIN manager_shift_hours_mod THEN manager_shift_hours_mod[k[3]]
    ELSE IF k[3] = "Flex" THEN flex_hours_mod
    ELSE shift_hours_mod[k[3]]

\* rate of one variable in the cost constraint, cents.
CostRate_mod(k) ==
    IF k[3] \in DOMAIN manager_shift_hours_mod THEN ManagerRate(k[2])
    ELSE CrewRate(Age_(k[1]))

\* model.Add(sum(cost_terms) <= MAX_WEEKLY_COST * 1_000_000)
CostConstraint_mod ==
    {[name |-> "cost", key |-> <<>>,
      coef |-> [k \in x |-> Hours_mod(k) * CostRate_mod(k)],
      ub |-> maxWeeklyCost * 100000]}

\* HourDev_mod with the deviation bounded by the weekly crew hours.
HourDev_mod_TightBound ==
    {[name |-> "hour_dev", key |-> <<s>>,
      coef |-> [k \in {k \in x : k[1] = s} |-> Hours_mod(k)],
      target |-> 70 * 1000, form |-> "abs", lo |-> 0, hi |-> 38 * 1000,
      weight |-> 1, tied |-> TRUE] :
        s \in {r \in StaffOf(df) : {k \in x : k[1] = r} # {}}}

\* WEEKLY HOURS (SOFT): "if hours:" dev = NewIntVar(0, 100_000_000),
\* model.AddAbsEquality(dev, total - 70*1000).
HourDev_mod ==
    {[name |-> "hour_dev", key |-> <<s>>,
      coef |-> [k \in {k \in x : k[1] = s} |-> Hours_mod(k)],
      target |-> 70 * 1000, form |-> "abs", lo |-> 0, hi |-> 100000000,
      weight |-> 1, tied |-> TRUE] :
        s \in {r \in StaffOf(df) : {k \in x : k[1] = r} # {}}}

Model_mod ==
    [hard |-> OneShiftPerDay_mod \cup ManagerWeekly_mod \cup CostConstraint_mod,
     soft |-> ManagerCoverage_mod \cup HourDev_mod]

-----------------------------------------------------------------------------
(* fileOne.py: constraints (it has no one-shift-per-day rule).             *)

\* SOFT MANAGER COVERAGE: model.Add(sum(manager_vars) + u == 1).
ManagerCoverage_f1 ==
    {[name |-> "uncovered", key |-> p,
      coef |-> Ones({k \in x : k[2] = p[1] /\ k[3] = p[2]}),
      target |-> 1, form |-> "short", lo |-> 0, hi |-> 1,
      weight |-> UNCOVERED_PENALTY_f1, tied |-> TRUE] : p \in ManagerPairs}

\* Manager weekly shift limits
ManagerWeekly_f1 ==
    {[name |-> "manager_weekly", key |-> <<m>>,
      coef |-> Ones({k \in x : k[1] = m /\ k[3] \in DOMAIN manager_shifts_f1}),
      ub |-> 4] :
        m \in {r \in StaffWithRole("Manager") :
                 {k \in x : k[1] = r /\ k[3] \in DOMAIN manager_shifts_f1} # {}}}

\* int(shift_hours.get(shift, flexible_shift[1]-flexible_shift[0]) * 1000)
Hours_f1(k) ==
    IF k[3] \in DOMAIN shift_hours_f1 THEN shift_hours_f1[k[3]]
    ELSE (flexible_shift_f1[2] - flexible_shift_f1[1]) * 10

\* rate of one variable in the cost constraint, cents: by the staff's role.
CostRate_f1(k) ==
    IF Role_(k[1]) = "Manager" THEN ManagerRate(k[2])
    ELSE CrewRate(Age_(k[1]))

\* model.Add(sum(total_cost_terms) <= MAX_WEEKLY_COST*1000*1000)
CostConstraint_f1 ==
    {[name |-> "cost", key |-> <<>>,
      coef |-> [k \in x |-> Hours_f1(k) * CostRate_f1(k)],
      ub |-> maxWeeklyCost * 100000]}

\* STEP 4: "if assigned_hours:" deviation = NewIntVar(0, 1000000),
\* model.AddAbsEquality(deviation, total_h - pref_hours*1000).
HourDev_f1 ==
    {[name |-> "hour_dev", key |-> <<s>>,
      coef |-> [k \in {k \in x : k[1] = s} |-> Hours_f1(k)],
      target |-> pref_hours * 1000, form |-> "abs", lo |-> 0, hi |-> 1000000,
      weight |-> 1, tied |-> TRUE] :
        s \in {r \in StaffOf(df) : {k \in x : k[1] = r} # {}}}

Model_f1 ==
    [hard |-> ManagerWeekly_f1 \cup CostConstraint_f1,
     soft |-> ManagerCoverage_f1 \cup HourDev_f1]

-----------------------------------------------------------------------------
(* SOLVE.  CpSolver.Solve runs without a time limit: it returns OPTIMAL    *)
(* with a minimiser of the objective over the assignments that satisfy     *)
(* every constraint, or INFEASIBLE when there is none.  Which minimiser is *)
(* the solver's choice.                                                    *)

\* The value a tied slack variable takes under assignment a.
TiedValue(s, a) ==
    IF s.form = "abs" THEN Abs(LinearSum(s.coef, a) - s.target)
    ELSE s.target - LinearSum(s.coef, a)

\* The value of a slack variable in a solution with assignment a.  A slack
\* variable no constraint mentions occurs only in the minimised objective,
\* with a positive weight: an optimal solution has it at its lower bound.
SlackValue(s, a) == IF s.tied THEN TiedValue(s, a) ELSE s.lo

\* Every constraint of the model holds under a.
Satisfies(a) ==
    /\ \A c \in model.hard : LinearSum(c.coef, a) <= c.ub
    /\ \A s \in model.soft : s.tied => TiedValue(s, a) \in s.lo..s.hi

PenaltyOf(s, a) == SlackValue(s, a) * s.weight

\* sum(penalties).  No slack of an assignment that satisfies the constraints
\* is negative; each term is counted one higher in the bag and the count of
\* terms is taken off again, so that a penalty of zero is a term as well.
Objective(a) ==
    IF model.soft = {} THEN 0
    ELSE BagCardinality([s \in model.soft |-> PenaltyOf(s, a) + 1])
            - Cardinality(model.soft)

Feasible == {a \in SUBSET x : Satisfies(a)}

Minimisers ==
    LET F    == Feasible
        obj  == [a \in F |-> Objective(a)]
        best == Min({obj[a] : a \in F})
    IN  {a \in F : obj[a] = best}

-----------------------------------------------------------------------------
(* OUTPUT                                                                  *)

\* hour_to_time(h): "HH:MM" as <<HH, MM>>.
hour_to_time(h) == <<h \div 100, ((h % 100) * 60) \div 100>>

\* n/d rounded to the nearest integer, ties to even: what f"{v:.2f}" does to
\* a value that is exact in binary (every hours * rate of the catalogue is).
RoundHalfEven(n, d) ==
    LET q == n \div d
        r == n % d
    IN  IF 2 * r < d THEN q
        ELSE IF 2 * r > d THEN q + 1
        ELSE IF q % 2 = 0 THEN q ELSE q + 1

\* RosterRecord_v2 with the weekend multiplier forgotten in the rate.
RosterRecord_v2_FlatManagerRate(k) ==
    LET t == IF k[3] \in DOMAIN manager_shifts_v2 THEN manager_shifts_v2[k[3]]
             ELSE IF k[3] = "Flex" THEN flexible_shift_v2
             ELSE shifts_v2[k[3]]
        rate == IF k[3] \in DOMAIN manager_shifts_v2 THEN manager_pay
                ELSE CrewRate(Age_(k[1]))
    IN  [Staff |-> k[1], Role |-> Role_(k[1]), Day |-> k[2], Shift |-> k[3],
         StartTime |-> hour_to_time(t[1]), EndTime |-> hour_to_time(t[2]),
         Hours |-> t[3], PayRate |-> rate,
         DailyCost |-> RoundHalfEven(t[3] * rate, 1000)]

\* roster_v2.py: the record appended for a variable with Value 1.  Hours
\* in thousandths, Pay Rate and Daily Cost in cents (two decimals).
RosterRecord_v2(k) ==
    LET t == IF k[3] \in DOMAIN manager_shifts_v2 THEN manager_shifts_v2[k[3]]
             ELSE IF k[3] = "Flex" THEN flexible_shift_v2
             ELSE shifts_v2[k[3]]
        rate == IF k[3] \in DOMAIN manager_shifts_v2 THEN ManagerRate(k[2])
                ELSE CrewRate(Age_(k[1]))
    IN  [Staff |-> k[1], Role |-> Role_(k[1]), Day |-> k[2], Shift |-> k[3],
         StartTime |-> hour_to_time(t[1]), EndTime |-> hour_to_time(t[2]),
         Hours |-> t[3], PayRate |-> rate,
         DailyCost |-> RoundHalfEven(t[3] * rate, 1000)]

\* mod.py: out.append({'Staff': s, 'Day': d, 'Shift': sh})
RosterRecord_mod(k) == [Staff |-> k[1], Day |-> k[2], Shift |-> k[3]]

\* fileOne.py: roster.append({'Staff': key[0], 'Day': key[1], 'Shift': key[2]})
RosterRecord_f1(k) == [Staff |-> k[1], Day |-> k[2], Shift |-> k[3]]

\* The list built by the loop "for ..., var in x.items(): if solver.Value(var)".
RosterOf(a) ==
    CASE variant = "roster_v2" -> {RosterRecord_v2(k) : k \in a}
      [] variant = "mod"       -> {RosterRecord_mod(k) : k \in a}
      [] variant = "fileOne"   -> {RosterRecord_f1(k) : k \in a}

\* roster_v2.py: daily_summary, total_hours and total_cost.
ReportOf_v2(recs) ==
    LET hours(r) == r.Hours
        cost(r)  == r.DailyCost
    IN  [daily |-> [d \in {r.Day : r \in recs} |->
                      [TotalStaff |-> Cardinality({r \in recs : r.Day = d}),
                       Hours      |-> Sum({r \in recs : r.Day = d}, hours),
                       DailyCost  |-> Sum({r \in recs : r.Day = d}, cost)]],
         total_hours |-> Sum(recs, hours),
         total_cost  |-> Sum(recs, cost)]

\* roster_df.sort_values(by=['Day', ...]) of roster_v2.py and fileOne.py
\* raises KeyError when the roster list is empty: DataFrame([]) has no
\* columns.  mod.py does not sort.
SortRaises(recs) == variant \in {"roster_v2", "fileOne"} /\ recs = {}

\* "for _, row in df.iterrows(): ..." of the running script.
CreateVariables ==
    /\ pc = "Read"
    /\ x' = CreateVars(variant, df)
    /\ pc' = "Vars"
    /\ UNCHANGED <<variant, maxWeeklyCost, df, model, status, sol, deadlinePassed,
                 roster, report, written>>

\* The model.Add(...) and penalties.append(...) of the running script, up
\* to model.Minimize(...).
AddConstraints ==
    /\ pc = "Vars"
    /\ model' = CASE variant = "roster_v2" -> Model_v2
                  [] variant = "mod"       -> Model_mod
                  [] variant = "fileOne"   -> Model_f1
    /\ pc' = "Built"
    /\ UNCHANGED <<variant, maxWeeklyCost, df, x, status, sol, deadlinePassed,
                 roster, report, written>>

\* solver = cp_model.CpSolver(); the call of solver.Solve(model).
StartSolve ==
    /\ pc = "Built"
    /\ pc' = "Solving"
    /\ UNCHANGED <<variant, maxWeeklyCost, df, x, model, status, sol, deadlinePassed,
                 roster, report, written>>

\* solver.Solve(model) returns cp_model.OPTIMAL.  The solver is given no
\* time limit, so the call returns when the search is complete, before or
\* after any deadline the caller has in mind.
SolveOptimal ==
    /\ pc = "Solving"
    /\ \E a \in Minimisers :
          /\ sol' = a
          /\ status' = "OPTIMAL"
    /\ deadlinePassed' \in BOOLEAN
    /\ pc' = "Solved"
    /\ UNCHANGED <<variant, maxWeeklyCost, df, x, model, roster, report, written>>

\* solver.Solve(model) returns cp_model.INFEASIBLE.
SolveInfeasible ==
    /\ pc = "Solving"
    /\ ~ \E a \in SUBSET x : Satisfies(a)
    /\ status' = "INFEASIBLE"
    /\ deadlinePassed' \in BOOLEAN
    /\ pc' = "Solved"
    /\ UNCHANGED <<variant, maxWeeklyCost, df, x, model, sol, roster, report, written>>

\* "if status in [cp_model.OPTIMAL, cp_model.FEASIBLE]:" the roster is
\* collected, summarised and written to generated_roster.xlsx.
WriteRoster ==
    /\ pc = "Solved"
    /\ status \in {"OPTIMAL", "FEASIBLE"}
    /\ ~ SortRaises(RosterOf(sol))
    /\ roster' = RosterOf(sol)
    /\ report' = IF variant = "roster_v2" THEN ReportOf_v2(RosterOf(sol)) ELSE EmptyReport
    /\ written' = TRUE
    /\ pc' = "Done"
    /\ UNCHANGED <<variant, maxWeeklyCost, df, x, model, status, sol, deadlinePassed>>

\* The same branch when no variable has Value 1: sort_values raises and the
\* script ends with the traceback, nothing written.
OutputRaises ==
    /\ pc = "Solved"
    /\ status \in {"OPTIMAL", "FEASIBLE"}
    /\ SortRaises(RosterOf(sol))
    /\ roster' = RosterOf(sol)
    /\ pc' = "Raised"
    /\ UNCHANGED <<variant, maxWeeklyCost, df, x, model, status, sol, deadlinePassed,
                 report, written>>

\* "else: print('No feasible solution found')".
NoSolution ==
    /\ pc = "Solved"
    /\ status \notin {"OPTIMAL", "FEASIBLE"}
    /\ pc' = "Done"
    /\ UNCHANGED <<variant, maxWeeklyCost, df, x, model, status, sol, deadlinePassed,
                 roster, report, written>>

Next ==
    \/ CreateVariables
    \/ AddConstraints
    \/ StartSolve
    \/ SolveOptimal
    \/ SolveInfeasible
    \/ WriteRoster
    \/ OutputRaises
    \/ NoSolution

Spec == Init /\ [][Next]_vars

\* The runs of roster_v2.py alone, and those of roster_v2.py and mod.py.
Init_v2 == Init /\ variant = "roster_v2"

Spec_v2 == Init_v2 /\ [][Next]_vars

Init_v2_mod == Init /\ variant \in {"roster_v2", "mod"}

Spec_v2_mod == Init_v2_mod /\ [][Next]_vars

\* roster_v2.py run on the one-day tables.
InitCrowd ==
    /\ variant = "roster_v2"
    /\ maxWeeklyCost \in Ceilings
    /\ df \in CrowdTables
    /\ x = {}
    /\ model = EmptyModel
    /\ pc = "Read"
    /\ status = "NONE"
    /\ sol = {}
    /\ deadlinePassed = FALSE
    /\ roster = {}
    /\ report = EmptyReport
    /\ written = FALSE

SpecCrowd == InitCrowd /\ [][Next]_vars

-----------------------------------------------------------------------------
(* PROPERTIES.  A returned roster is the state after the script wrote the  *)
(* workbook (written); `roster` then holds the emitted records.  A claim   *)
(* is stated of the scripts its sources cite.                              *)

ManagerShiftNames == {"Morn_Manager", "Aft_Manager"}

CrewShiftNames == {"ShiftA", "ShiftB", "ShiftC", "ShiftD"}

\* The time window and the duration of a shift as the specification's
\* catalogue gives them: <<start, end, thousandths of an hour>>.
ShiftSpec(sh) ==
    CASE sh = "ShiftA"       -> <<550, 1350, 8000>>
      [] sh = "ShiftB"       -> <<700, 1400, 7000>>
      [] sh = "ShiftC"       -> <<1675, 2150, 4750>>
      [] sh = "ShiftD"       -> <<1400, 2150, 7500>>
      [] sh = "Flex"         -> <<800, 1300, 5000>>
      [] sh = "Morn_Manager" -> <<550, 1350, 8000>>
      [] sh = "Aft_Manager"  -> <<1350, 2150, 8000>>

\* The effective rate of an assignment as the specification defines it
\* (cents): manager flat rate times the day's weekend multiplier for a
\* manager shift, the age-band rate (fallback 18) otherwise.
EffectiveRate(staff, day, sh) ==
    IF sh \in ManagerShiftNames
    THEN CASE day = "Sat" -> 3600 [] day = "Sun" -> 4500 [] OTHER -> 3000
    ELSE LET age == RowOf(df, staff).Age
         IN  CASE age = 16 -> 1200 [] age = 17 -> 1250 [] age = 18 -> 1300
               [] age = 19 -> 1350 [] age = 20 -> 1400 [] age = 21 -> 1500
               [] age = 22 -> 1600 [] age = 23 -> 1700 [] age = 24 -> 1800
               [] age = 25 -> 1900 [] OTHER -> 1800

\* hours x effective rate of one record, in 1/100000 dollar.
AssignmentCost(r) == ShiftSpec(r.Shift)[3] * EffectiveRate(r.Staff, r.Day, r.Shift)

AssignmentHours(r) == ShiftSpec(r.Shift)[3]

\* The records of staff s, and those on day d.
RecordsOf(s) == {r \in roster : r.Staff = s}

RecordsOn(s, d) == {r \in roster : r.Staff = s /\ r.Day = d}

\* C1: in every returned roster (roster_v2.py, mod.py) each staff member has
\* at most one assignment on each day, whatever the kind of shift.
C1_OneShiftPerDay ==
    (variant \in {"roster_v2", "mod"} /\ written) =>
        \A s \in StaffOf(df), d \in Days : Cardinality(RecordsOn(s, d)) <= 1

\* C1 witness: a returned roster assigns a staff member who had several
\* decision variables on a day to exactly one of them.
C1_Witness ==
    /\ variant \in {"roster_v2", "mod"}
    /\ written
    /\ \E s \in StaffOf(df), d \in Days :
          /\ Cardinality({k \in x : k[1] = s /\ k[2] = d}) >= 2
          /\ Cardinality(RecordsOn(s, d)) = 1

\* C2: in every returned roster (roster_v2.py, fileOne.py) the sum of
\* hours x effective rate over the assignments is at most the weekly cost
\* ceiling.
C2_CostCeiling ==
    (variant \in {"roster_v2", "fileOne"} /\ written) =>
        Sum(roster, AssignmentCost) <= maxWeeklyCost * 100000

\* C2 for roster_v2.py and mod.py alone, where it holds.
C2_CostCeiling_v2_mod ==
    (variant \in {"roster_v2", "mod"} /\ written) =>
        Sum(roster, AssignmentCost) <= maxWeeklyCost * 100000

\* C3: every assignment's shift category matches the staff's role: manager
\* shifts only for Manager and RM staff, and no crew or Flex shift for them.
C3_RoleGating ==
    written =>
        \A r \in roster :
            (r.Shift \in ManagerShiftNames) <=> (Role_(r.Staff) \in {"Manager", "RM"})

\* C3 for roster_v2.py alone, where it holds.
C3_RoleGating_v2 ==
    (variant = "roster_v2" /\ written) =>
        \A r \in roster :
            (r.Shift \in ManagerShiftNames) <=> (Role_(r.Staff) \in {"Manager", "RM"})

\* The availability window of staff s on day d contains shift sh.
WindowContains(s, d, sh) ==
    LET row == RowOf(df, s)
    IN  /\ row.start[d] # NaN
        /\ row.end[d] # NaN
        /\ row.start[d] <= ShiftSpec(sh)[1]
        /\ row.end[d] >= ShiftSpec(sh)[2]

\* C4: every decision variable, and so every assignment of a returned
\* roster, is for a day on which the staff member has a window (start and
\* end) that contains the whole shift.
C4_WindowContainment ==
    /\ \A k \in x : WindowContains(k[1], k[2], k[3])
    /\ \A r \in roster : WindowContains(r.Staff, r.Day, r.Shift)

\* C4 witness: a returned roster with an assignment, for a table in which
\* one staff member's window overlaps a shift without containing it and
\* another's window lacks its end.
C4_Witness ==
    /\ written
    /\ roster # {}
    /\ \E i \in 1..Len(df), d \in Days :
          /\ df[i].start[d] # NaN /\ df[i].end[d] # NaN
          /\ df[i].start[d] < ShiftSpec("ShiftB")[2]
          /\ df[i].end[d] > ShiftSpec("ShiftB")[1]
          /\ ~ WindowContains(df[i].Staff, d, "ShiftB")
    /\ \E i \in 1..Len(df), d \in Days :
          df[i].start[d] # NaN /\ df[i].end[d] = NaN

\* The cost of the cheapest single legal assignment exceeds the ceiling.
CeilingBelowCheapest ==
    /\ x # {}
    /\ \A k \in x :
          maxWeeklyCost * 100000
              < ShiftSpec(k[3])[3] * EffectiveRate(k[1], k[2], k[3])

Solved == pc \in {"Solved", "Done", "Raised"}

\* C5 as claimed: with the ceiling below the cheapest single legal
\* assignment the solve ends Infeasible and no assignment is produced.
C5_InfeasibleBelowCheapest ==
    (Solved /\ CeilingBelowCheapest) => (status = "INFEASIBLE" /\ roster = {})

\* C5 amended: with the ceiling below the cheapest single legal assignment
\* the solve ends Infeasible only when the ceiling is negative; with a
\* ceiling >= 0 (0 in particular) it ends Optimal with every decision
\* variable false.  Either way no assignment is produced.
C5_EmptyBelowCheapest ==
    (Solved /\ CeilingBelowCheapest) =>
        /\ maxWeeklyCost < 0  => status = "INFEASIBLE"
        /\ maxWeeklyCost >= 0 => (status = "OPTIMAL" /\ sol = {})
        /\ roster = {}

\* C5 witness: Scenario B's shape, a manager and a crew member with
\* decision variables, ceiling 0, the output step done.
C5_Witness ==
    /\ pc \in {"Done", "Raised"}
    /\ maxWeeklyCost = 0
    /\ CeilingBelowCheapest
    /\ \E k \in x : k[3] \in ManagerShiftNames
    /\ \E k \in x : k[3] \in CrewShiftNames
    /\ status = "OPTIMAL"

\* C6: in every returned roster no Manager has more than 4 manager shifts
\* in the week.
C6_ManagerShiftCap ==
    written =>
        \A s \in StaffWithRole("Manager") :
            Cardinality({r \in RecordsOf(s) : r.Shift \in ManagerShiftNames}) <= 4

\* C6 for mod.py and fileOne.py alone, where it holds.
C6_ManagerShiftCap_mod_f1 ==
    (variant \in {"mod", "fileOne"} /\ written) =>
        \A s \in StaffWithRole("Manager") :
            Cardinality({r \in RecordsOf(s) : r.Shift \in ManagerShiftNames}) <= 4

\* C7: in every returned roster (roster_v2.py, mod.py) no staff member who
\* is neither Manager nor RM has shifts summing to more than 38 hours.
C7_CrewHourCap ==
    (variant \in {"roster_v2", "mod"} /\ written) =>
        \A s \in StaffOf(df) :
            Role_(s) \notin {"Manager", "RM"} =>
                Sum(RecordsOf(s), AssignmentHours) <= 38 * 1000

\* C7 for roster_v2.py alone, where it holds.
C7_CrewHourCap_v2 ==
    (variant = "roster_v2" /\ written) =>
        \A s \in StaffOf(df) :
            Role_(s) \notin {"Manager", "RM"} =>
                Sum(RecordsOf(s), AssignmentHours) <= 38 * 1000

\* C8: in every roster roster_v2.py returns no RM staff member is assigned
\* on more than 5 distinct days.
C8_RelayManagerDayCap ==
    (variant = "roster_v2" /\ written) =>
        \A s \in StaffWithRole("RM") :
            Cardinality({r.Day : r \in RecordsOf(s)}) <= 5

\* C8 witness: an RM with decision variables on six days is assigned on
\* exactly five.
C8_Witness ==
    /\ variant = "roster_v2"
    /\ written
    /\ \E s \in StaffWithRole("RM") :
          /\ Cardinality({k[2] : k \in {j \in x : j[1] = s}}) >= 6
          /\ Cardinality({r.Day : r \in RecordsOf(s)}) = 5

\* C9: (roster_v2.py, mod.py) a Flex decision variable exists only for a
\* staff member of role Both, on a Yellow or Green day, whose window
\* contains 08:00-13:00; no returned roster has a Flex assignment on a Red
\* day or for another role.
C9_FlexGating ==
    variant \in {"roster_v2", "mod"} =>
        /\ \A k \in x :
              k[3] = "Flex" =>
                  /\ Role_(k[1]) = "Both"
                  /\ day_demand[k[2]] \in {"Yellow", "Green"}
                  /\ WindowContains(k[1], k[2], "Flex")
        /\ \A r \in roster :
              r.Shift = "Flex" =>
                  (Role_(r.Staff) = "Both" /\ day_demand[r.Day] # "Red")

\* C9 for mod.py and fileOne.py, where it holds.
C9_FlexGating_mod_f1 ==
    variant \in {"mod", "fileOne"} =>
        \A k \in x :
            k[3] = "Flex" =>
                /\ Role_(k[1]) = "Both"
                /\ day_demand[k[2]] \in {"Yellow", "Green"}
                /\ WindowContains(k[1], k[2], "Flex")

\* C10: (roster_v2.py, mod.py) once the run has ended, a roster was produced
\* if and only if the status is Optimal or Feasible; with any other status
\* no record was emitted; and nothing is emitted before the solve returns.
C10_RosterIffSolved ==
    variant \in {"roster_v2", "mod"} =>
        /\ pc \in {"Done", "Raised"} =>
              (written <=> status \in {"OPTIMAL", "FEASIBLE"})
        /\ status \notin {"OPTIMAL", "FEASIBLE"} => (roster = {} /\ ~written)

\* C10 without its "if" half: a roster is produced only with status Optimal
\* or Feasible, and with any other status no record is emitted.
C10_NoRosterUnlessSolved ==
    /\ written => status \in {"OPTIMAL", "FEASIBLE"}
    /\ status \notin {"OPTIMAL", "FEASIBLE"} => (roster = {} /\ ~written)

\* Position of a decision variable in the order by (day, shift name, staff
\* identifier): days in week order, shift names and identifiers as strings.
DayRank(d) == CHOOSE i \in 1..Len(days) : days[i] = d

ShiftRank(sh) ==
    CASE sh = "Aft_Manager" -> 1 [] sh = "Flex" -> 2 [] sh = "Morn_Manager" -> 3
      [] sh = "ShiftA" -> 4 [] sh = "ShiftB" -> 5 [] sh = "ShiftC" -> 6
      [] sh = "ShiftD" -> 7

StaffRank(s) == CHOOSE i \in 1..Len(df) : df[i].Staff = s

KeyRank(k) == (DayRank(k[2]) * 10 + ShiftRank(k[3])) * 10 + StaffRank(k[1])

\* a comes before b when both are listed in key order and compared
\* lexicographically.
LexLess(a, b) ==
    /\ a # b
    /\ LET D == (a \ b) \cup (b \ a)
           m == CHOOSE k \in D : \A j \in D : KeyRank(k) <= KeyRank(j)
       IN  IF m \in a THEN \E j \in b : KeyRank(j) > KeyRank(m)
           ELSE ~ \E j \in a : KeyRank(j) > KeyRank(m)

\* C11: the assignment set roster_v2.py's solve returns is determined by the
\* input: it is the least, in lexicographic order by (day, shift name,
\* staff identifier), of the assignment sets attaining the optimal
\* objective value, so two solves of one input return the same set.
C11_LexLeastOptimum ==
    (variant = "roster_v2" /\ Solved /\ status = "OPTIMAL") =>
        \A a \in Minimisers : a = sol \/ LexLess(sol, a)

\* What does hold of the solve: the returned set attains the least objective
\* value among the assignment sets satisfying every constraint.
C11_ReturnsAnOptimum ==
    (Solved /\ status = "OPTIMAL") =>
        /\ Satisfies(sol)
        /\ \A a \in SUBSET x : Satisfies(a) => Objective(sol) <= Objective(a)


\* The window of row r on day d is 05:00-22:00.
AllDay(r, d) == r.start[d] = 500 /\ r.end[d] = 2200

\* Scenario A on Monday: a Manager and an FOH crew member aged 20, both
\* available 05:00-22:00 on Monday, the crew member on Monday only, and
\* the default (ample) cost ceiling.
ScenarioA(m, c) ==
    /\ variant = "roster_v2"
    /\ maxWeeklyCost = MAX_WEEKLY_COST
    /\ Len(df) = 2
    /\ {m, c} = StaffOf(df)
    /\ RowOf(df, m).Role = "Manager" /\ AllDay(RowOf(df, m), "Mon")
    /\ RowOf(df, c).Role = "FOH" /\ RowOf(df, c).Age = 20
    /\ \A d \in Days :
          IF d = "Mon" THEN AllDay(RowOf(df, c), d)
          ELSE RowOf(df, c).start[d] = NaN /\ RowOf(df, c).end[d] = NaN

\* The uncovered-manager penalty the returned solution incurs on day d.
UncoveredPenaltyOn(d) ==
    LET U == {s \in model.soft : s.name = "uncovered" /\ s.key[1] = d}
    IN  SumFn([s \in U |-> PenaltyOf(s, sol)], U)

\* C12: in Scenario A the returned roster has the manager on Morn_Manager
\* on Monday and the crew member on ShiftA on Monday, and Monday's
\* uncovered-manager penalty is zero.
C12_ScenarioA ==
    \A m, c \in StaffOf(df) :
        (ScenarioA(m, c) /\ written) =>
            /\ \E r \in roster :
                  r.Staff = m /\ r.Day = "Mon" /\ r.Shift = "Morn_Manager"
            /\ \E r \in roster :
                  r.Staff = c /\ r.Day = "Mon" /\ r.Shift = "ShiftA"
            /\ UncoveredPenaltyOn("Mon") = 0

\* What does hold in Scenario A: on Monday the manager has exactly one of
\* the two manager shifts and the crew member exactly one crew shift, and
\* the manager shift left over is paid for with one uncovered penalty.
C12_ScenarioA_OneEach ==
    \A m, c \in StaffOf(df) :
        (ScenarioA(m, c) /\ written) =>
            /\ \E r \in RecordsOn(m, "Mon") :
                  RecordsOn(m, "Mon") = {r} /\ r.Shift \in ManagerShiftNames
            /\ \E r \in RecordsOn(c, "Mon") :
                  RecordsOn(c, "Mon") = {r} /\ r.Shift \in CrewShiftNames
            /\ UncoveredPenaltyOn("Mon") = UNCOVERED_PENALTY


\* Staff member s has role Both and is available exactly 08:00-13:00 on the
\* Green day d.
FlexOnly(s, d) ==
    /\ Role_(s) = "Both"
    /\ day_demand[d] = "Green"
    /\ RowOf(df, s).start[d] = 800
    /\ RowOf(df, s).end[d] = 1300

FlexRecordOf(s, d) == {r \in roster : r.Staff = s /\ r.Day = d /\ r.Shift = "Flex"}

\* The headcount of day d without s is below the day's tier minimum.
DemandNotMet(s, d) ==
    Cardinality({r \in roster : r.Day = d /\ r.Staff # s})
        < (CASE day_demand[d] = "Red" -> 14 [] day_demand[d] = "Yellow" -> 12
             [] OTHER -> 10)

\* C13 as claimed (roster_v2.py): for a Both-role member available exactly
\* 08:00-13:00 on a Green day, Flex is the only decision variable of that
\* member on that day, and a returned roster whose headcount that day is
\* otherwise below the tier minimum assigns the member to Flex that day.
C13_ScenarioC ==
    variant = "roster_v2" =>
        \A s \in StaffOf(df), d \in Days :
            FlexOnly(s, d) =>
                /\ pc # "Read" => {k \in x : k[1] = s /\ k[2] = d} = {<<s, d, "Flex">>}
                /\ (written /\ DemandNotMet(s, d)) => FlexRecordOf(s, d) # {}

\* The Flex shift on day d fits beside the rest of the roster: the member's
\* other shifts plus Flex stay within 38 hours, and the other assignments'
\* cost plus the Flex shift's stays within the weekly cost ceiling.
FlexAffordable(s, d) ==
    LET rest == roster \ FlexRecordOf(s, d)
        flex == [Staff |-> s, Day |-> d, Shift |-> "Flex"]
    IN  /\ Sum({r \in rest : r.Staff = s}, AssignmentHours) + AssignmentHours(flex)
              <= 38 * 1000
        /\ Sum(rest, AssignmentCost) + AssignmentCost(flex) <= maxWeeklyCost * 100000

\* C13 amended: as C13, with the assignment promised only when the Flex
\* shift fits within the member's 38 weekly hours and the cost ceiling.
C13_ScenarioC_Affordable ==
    variant = "roster_v2" =>
        \A s \in StaffOf(df), d \in Days :
            FlexOnly(s, d) =>
                /\ pc # "Read" => {k \in x : k[1] = s /\ k[2] = d} = {<<s, d, "Flex">>}
                /\ (written /\ DemandNotMet(s, d) /\ FlexAffordable(s, d))
                      => FlexRecordOf(s, d) # {}

\* C13 witness: a returned roster of roster_v2.py assigns Flex on a Green
\* day to a Both-role member available exactly 08:00-13:00 that day, who
\* works other shifts in the week as well.
C13_Witness ==
    /\ variant = "roster_v2"
    /\ written
    /\ \E s \in StaffOf(df), d \in Days :
          /\ FlexOnly(s, d)
          /\ DemandNotMet(s, d)
          /\ FlexRecordOf(s, d) # {}
          /\ \E r \in RecordsOf(s) : r.Day # d


\* The role tags the specification recognises; roster_v2.py maps the
\* misspelling 'Manger' to 'Manager' before use.
CanonicalRoles == {"FOH", "BOH", "Both", "Manager", "RM"}

UnrecognisedRoles == {df[i].Role : i \in 1..Len(df)} \ (CanonicalRoles \cup {"Manger"})

\* C14: when a staff record carries a role outside the canonical set, the
\* run stops before any decision variable or constraint is created: no
\* staff member has a decision variable and no roster is produced.
C14_UnknownRoleRejected ==
    UnrecognisedRoles # {} =>
        /\ x = {}
        /\ model = EmptyModel
        /\ roster = {} /\ ~written


\* C15: the solve ends in exactly one of the statuses Optimal, Feasible,
\* Infeasible, Unknown; and a solve during which the caller's deadline
\* passed has returned what it had by then: Feasible with the best
\* solution found, or Unknown.
C15_DeadlineHonoured ==
    /\ Solved <=> status \in {"OPTIMAL", "FEASIBLE", "INFEASIBLE", "UNKNOWN"}
    /\ (Solved /\ deadlinePassed) => status \in {"FEASIBLE", "UNKNOWN"}

\* What does hold of the solve: a status is set exactly when the solve has
\* returned, it is Optimal or Infeasible, the status is set by the step
\* that leaves Solving, and Solving is entered from Built only.
C15_StatusOnlyFromSolving ==
    [][/\ status' # status => (pc = "Solving" /\ pc' = "Solved" /\ status = "NONE"
                                 /\ status' \in {"OPTIMAL", "INFEASIBLE"})
       /\ (pc' = "Solving" /\ pc # "Solving") => pc = "Built"
       /\ (pc = "Solving" /\ pc' # "Solving") => status' # "NONE"]_vars


\* The emitted records are one per decision variable solved to true.
OnePerTrueVariable ==
    /\ \A k \in sol :
          Cardinality({r \in roster : <<r.Staff, r.Day, r.Shift>> = k}) = 1
    /\ \A r \in roster : <<r.Staff, r.Day, r.Shift>> \in sol

\* The daily summary and the weekly totals are the counts and sums over the
\* emitted records.
ReportMatchesRecords ==
    LET hours(r) == r.Hours
        cost(r)  == r.DailyCost
    IN  /\ DOMAIN report.daily = {r.Day : r \in roster}
        /\ \A d \in DOMAIN report.daily :
              /\ report.daily[d].TotalStaff = Cardinality({r \in roster : r.Day = d})
              /\ report.daily[d].Hours = Sum({r \in roster : r.Day = d}, hours)
              /\ report.daily[d].DailyCost = Sum({r \in roster : r.Day = d}, cost)
        /\ report.total_hours = Sum(roster, hours)
        /\ report.total_cost = Sum(roster, cost)

\* C16 as claimed (roster_v2.py): one record per variable solved to true and
\* none for a variable solved to false; each record's cost is exactly its
\* duration times the effective rate of the cost constraint; the daily
\* summary and the weekly totals are the counts and sums over the records.
C16_OutputExact ==
    (variant = "roster_v2" /\ written) =>
        /\ OnePerTrueVariable
        /\ \A r \in roster :
              /\ r.Hours = AssignmentHours(r)
              /\ r.DailyCost * 1000 = AssignmentCost(r)
        /\ ReportMatchesRecords

\* C16 amended: the same, with each record's cost the duration times the
\* effective rate rounded to whole cents (a half cent goes to the even
\* cent).
C16_OutputRounded ==
    (variant = "roster_v2" /\ written) =>
        /\ OnePerTrueVariable
        /\ \A r \in roster :
              /\ r.Hours = AssignmentHours(r)
              /\ LET c == AssignmentCost(r)
                 IN  /\ 2 * Abs(r.DailyCost * 1000 - c) <= 1000
                     /\ (2 * Abs(r.DailyCost * 1000 - c) = 1000) => r.DailyCost % 2 = 0
        /\ ReportMatchesRecords

\* C16 witness: a roster written by roster_v2.py with two records on one
\* day and a record whose cost had a half cent to round.
C16_Witness ==
    /\ variant = "roster_v2"
    /\ written
    /\ \E d \in Days : Cardinality({r \in roster : r.Day = d}) >= 2
    /\ \E r \in roster : r.DailyCost * 1000 # AssignmentCost(r)


\* The manager-coverage terms of the model, and the number of staff the
\* returned solution assigns to the pair p = <<day, manager shift>>.
UncoveredTerms == {s \in model.soft : s.name = "uncovered"}

AssignedTo(p) == Cardinality({k \in sol : k[2] = p[1] /\ k[3] = p[2]})

\* C17: in every returned solution (roster_v2.py, mod.py) each of the 14
\* (day, manager shift) pairs has a slack with assigned + slack = 1, so at
\* most one manager is assigned to a pair, and a pair with no manager
\* assigned, eligible staff or not, has slack 1 and adds 1,000,000 to the
\* objective.
C17_ManagerCoverage ==
    (variant \in {"roster_v2", "mod"} /\ Solved /\ status = "OPTIMAL") =>
        /\ {s.key : s \in UncoveredTerms} = Days \X ManagerShiftNames
        /\ Cardinality(UncoveredTerms) = 14
        /\ \A s \in UncoveredTerms :
              /\ AssignedTo(s.key) + SlackValue(s, sol) = 1
              /\ AssignedTo(s.key) = 0 => PenaltyOf(s, sol) = 1000000

\* C17 for mod.py alone, and for the pairs of roster_v2.py that have an
\* eligible staff member, where it holds.
C17_ManagerCoverage_Eligible ==
    (variant \in {"roster_v2", "mod"} /\ Solved /\ status = "OPTIMAL") =>
        /\ {s.key : s \in UncoveredTerms} = Days \X ManagerShiftNames
        /\ \A s \in UncoveredTerms :
              (variant = "mod" \/ \E k \in x : k[2] = s.key[1] /\ k[3] = s.key[2]) =>
                  /\ AssignedTo(s.key) + SlackValue(s, sol) = 1
                  /\ AssignedTo(s.key) = 0 => PenaltyOf(s, sol) = 1000000


\* The required headcount of the slot t = <<day, crew shift, role category>>
\* under the day's tier, and the staff of that category the returned
\* solution assigns to the shift that day (Both counts for FOH and BOH).
RequiredOf(t) == staffing_rules[day_demand[t[1]]][t[2]][t[3]]

EligibleAssigned(t) ==
    Cardinality({k \in sol : k[2] = t[1] /\ k[3] = t[2] /\ Role_(k[1]) \in {t[3], "Both"}})

\* The model holds for slot t a slack in [0, required] with weight 10000
\* that equals required - assigned eligible candidates.
ShortfallHeld(t) ==
    \E s \in model.soft :
        /\ s.name = "understaffed" /\ s.key = t
        /\ s.lo = 0 /\ s.hi = RequiredOf(t) /\ s.weight = 10000
        /\ (Solved /\ status = "OPTIMAL") =>
              /\ SlackValue(s, sol) = RequiredOf(t) - EligibleAssigned(t)
              /\ PenaltyOf(s, sol) = (RequiredOf(t) - EligibleAssigned(t)) * 10000

\* C18: once roster_v2.py has built the model, every (day, crew shift, role
\* category) with a required headcount has its shortfall slack, also when
\* no staff member is an eligible candidate for it (the slack is then the
\* full requirement).
C18_RoleShortfall ==
    (variant = "roster_v2" /\ pc \notin {"Read", "Vars"}) =>
        \A t \in RequiredSlots : ShortfallHeld(t)

\* C18 for the slots that have an eligible candidate, where it holds.
C18_RoleShortfall_WithCandidates ==
    (variant = "roster_v2" /\ pc \notin {"Read", "Vars"}) =>
        \A t \in RequiredSlots :
            (\E k \in x : k[2] = t[1] /\ k[3] = t[2] /\ Role_(k[1]) \in {t[3], "Both"})
                => ShortfallHeld(t)



(***************************************************************************)
(* C19.  Minimum daily headcount.                                          *)
(***************************************************************************)

\* The tier minimum the claim states for a day.
TierMinimum(d) ==
    IF day_demand[d] = "Red" THEN 14
    ELSE IF day_demand[d] = "Yellow" THEN 12 ELSE 10

\* The number of staff assigned on day d in the solution.
AssignedOn(d) == Cardinality({k \in sol : k[2] = d})

\* The daily-minimum slack records the model holds for day d.
DailySlacks(d) ==
    {s \in model.soft : s.name = "min_staff_short" /\ s.key = <<d>>}

\* C19: in roster_v2.py, once the model is built, every day has exactly one
\* daily-minimum slack, bounded in [0, tier minimum] with tier minimum 14 on
\* Red, 12 on Yellow and 10 on Green days and objective weight 5000; in every
\* solution the slack equals tier minimum minus the number of staff assigned
\* that day, and the objective includes slack x 5000 for it.
C19_DailyMinimum ==
    (variant = "roster_v2" /\ pc \notin {"Read", "Vars"}) =>
        \A d \in Days :
            /\ Cardinality(DailySlacks(d)) = 1
            /\ \A s \in DailySlacks(d) :
                  /\ s.lo = 0 /\ s.hi = TierMinimum(d)
                  /\ s.weight = 5000
                  /\ (Solved /\ status = "OPTIMAL") =>
                        /\ SlackValue(s, sol) = TierMinimum(d) - AssignedOn(d)
                        /\ SlackValue(s, sol) \in 0..TierMinimum(d)
                        /\ PenaltyOf(s, sol) =
                               (TierMinimum(d) - AssignedOn(d)) * 5000

\* roster_v2.py has solved a week in which two staff work on a Red day and
\* nobody works on a Green day: the slacks are 12 and 10.
C19_Witness ==
    /\ variant = "roster_v2" /\ Solved /\ status = "OPTIMAL"
    /\ \E d \in Days : day_demand[d] = "Red" /\ AssignedOn(d) = 2
    /\ \E d \in Days : day_demand[d] = "Green" /\ AssignedOn(d) = 0
    /\ \E d \in Days : day_demand[d] = "Yellow" /\ AssignedOn(d) >= 1


(***************************************************************************)
(* C20.  Weekly-hour balance term.                                         *)
(***************************************************************************)

\* The staff members that have at least one decision variable.
StaffWithVariables == {k[1] : k \in x}

\* Total assigned hours of staff s in the solution, each shift counted at
\* its own duration (manager shifts at 8 hours), thousandths of an hour.
TotalHours(s) ==
    LET A == {k \in sol : k[1] = s}
    IN  SumFn([k \in A |-> ShiftSpec(k[3])[3]], A)

\* The model holds, for staff s, a balance term |total hours - 70| whose
\* weight is lower than that of every coverage or staffing penalty.
BalanceTermHeld(s) ==
    \E h \in model.soft :
        /\ h.name = "hour_dev" /\ h.key = <<s>>
        /\ \A p \in model.soft : p.name # "hour_dev" => h.weight < p.weight
        /\ (Solved /\ status = "OPTIMAL") =>
              PenaltyOf(h, sol) = h.weight * Abs(TotalHours(s) - 70 * 1000)

\* C20: once the model is built, the objective contains for every staff
\* member with at least one decision variable a term equal to the absolute
\* difference between the member's total assigned hours (manager shifts at
\* 8 hours) and 70 hours, weighted below every coverage/staffing penalty.
C20_HourBalance ==
    pc \notin {"Read", "Vars"} => \A s \in StaffWithVariables : BalanceTermHeld(s)

\* The same for mod.py alone.
C20_HourBalance_mod ==
    (variant = "mod" /\ pc \notin {"Read", "Vars"}) =>
        \A s \in StaffWithVariables : BalanceTermHeld(s)


(***************************************************************************)
(* C21.  Penalty priority.                                                 *)
(***************************************************************************)

\* The number of (day, manager shift) pairs assignment a leaves without a
\* manager.
UncoveredIn(a) ==
    Cardinality(ManagerPairs \ {<<k[2], k[3]>> : k \in a})

\* The hard rules of the model: the upper-bound constraints.
SatisfiesHard(a) == \A c \in model.hard : LinearSum(c.coef, a) <= c.ub

\* The variables of the manager shifts, and the weekly cost of an assignment
\* in the units of the cost constraint.
ManagerVars == {k \in x : k[3] \in ManagerShiftNames}

CostOf(a) == SumFn([k \in a |-> CostHours_v2(k) * CostRate_v2(k)], a)

\* C21: a solution roster_v2.py returns as Optimal leaves the minimum number
\* of (day, manager shift) pairs uncovered that any assignment satisfying
\* the hard rules attains, whatever staffing or headcount penalty that
\* costs; its objective value is the sum of slack x weight over the soft
\* terms of the model.  Every hard rule is an upper bound on a sum with
\* positive coefficients, so the manager shifts of an assignment that
\* satisfies the hard rules satisfy them by themselves and leave the same
\* pairs uncovered: the assignments of manager shifts are the ones compared.
C21_CoverageDominates ==
    (variant = "roster_v2" /\ pc = "Solved" /\ status = "OPTIMAL") =>
        /\ LET u == UncoveredIn(sol)
           IN  \A a \in SUBSET ManagerVars :
                   UncoveredIn(a) < u => ~ SatisfiesHard(a)
        /\ Objective(sol) =
              SumFn([s \in model.soft |-> SlackValue(s, sol) * s.weight], model.soft)

\* roster_v2.py has returned a solution under a ceiling that forces a
\* trade-off: a manager shift is assigned, and a crew shift that would
\* lower the staffing penalties is left out because the two together cost
\* more than the ceiling.
C21_Witness ==
    /\ variant = "roster_v2" /\ pc = "Solved" /\ status = "OPTIMAL"
    /\ sol \cap ManagerVars # {}
    /\ \E k \in x \ (sol \cup ManagerVars) :
          /\ CostOf({k}) <= maxWeeklyCost * 100000
          /\ CostOf(sol \cup {k}) > maxWeeklyCost * 100000
          /\ \A j \in sol : j[1] # k[1]


(***************************************************************************)
(* C22.  Slack upper bounds.                                               *)
(***************************************************************************)

\* The upper bound of slack s is no larger than the target it protects:
\* 1 for manager coverage, the required headcount for a role shortfall, the
\* tier minimum for the daily headcount, the 70-hour target (in thousandths
\* of an hour) for the weekly-hour deviation.
BoundedByTarget(s) ==
    CASE s.name = "uncovered"       -> s.hi <= 1
      [] s.name = "understaffed"    -> s.hi <= RequiredOf(s.key)
      [] s.name = "min_staff_short" -> s.hi <= TierMinimum(s.key[1])
      [] s.name = "hour_dev"        -> s.hi <= 70 * 1000
      [] OTHER -> FALSE

\* C22: in roster_v2.py and mod.py every slack variable of the built model
\* has an upper bound no larger than the target it protects.
C22_SlackBounds ==
    (variant \in {"roster_v2", "mod"} /\ pc \notin {"Read", "Vars"}) =>
        \A s \in model.soft : BoundedByTarget(s)

\* The same for every slack other than the weekly-hour deviation.
C22_SlackBounds_Coverage ==
    (variant \in {"roster_v2", "mod"} /\ pc \notin {"Read", "Vars"}) =>
        \A s \in model.soft : s.name # "hour_dev" => BoundedByTarget(s)


(***************************************************************************)
(* C23.  The model is always satisfiable.                                  *)
(***************************************************************************)

\* C23: in roster_v2.py and mod.py, for every input and every weekly cost
\* ceiling >= 0, the assignment with every decision variable false satisfies
\* every hard rule and every slack bound of the built model, and the solve
\* never ends with status Infeasible.
C23_AlwaysSatisfiable ==
    (variant \in {"roster_v2", "mod"} /\ maxWeeklyCost >= 0) =>
        /\ pc \notin {"Read", "Vars"} => Satisfies({})
        /\ Solved => status # "INFEASIBLE"

\* A solve of roster_v2.py or mod.py has returned under the ceiling 0 on a
\* model with decision variables, a weekly-hour or headcount slack at its
\* full target: the all-false assignment is the only one left.
C23_Witness ==
    /\ variant \in {"roster_v2", "mod"} /\ maxWeeklyCost = 0
    /\ Solved /\ x # {} /\ sol = {}
    /\ status = "OPTIMAL"
    /\ \E s \in model.soft : s.tied /\ SlackValue(s, {}) = s.target /\ s.target > 1


(***************************************************************************)
(* C24.  The daily minimum acts as a maximum.                              *)
(***************************************************************************)

\* The staff members the roster assigns on day d, and those that have a
\* decision variable on day d.
StaffAssignedOn(d) == {r.Staff : r \in {q \in roster : q.Day = d}}

StaffAvailableOn(d) == {k[1] : k \in {j \in x : j[2] = d}}

\* C24: in every roster roster_v2.py returns, the number of staff assigned
\* on a day (crew, Flex and managers together) is at most 14 on a Red, 12 on
\* a Yellow and 10 on a Green day.
C24_DailyMaximum ==
    (variant = "roster_v2" /\ written) =>
        \A d \in Days : Cardinality(StaffAssignedOn(d)) <= TierMinimum(d)

\* roster_v2.py has returned a roster for a Green day on which a manager, a
\* crew member and Flex staff, more than ten together, could work: ten of
\* them are assigned, a manager, a crew shift and Flex shifts among them.
C24_Witness ==
    /\ variant = "roster_v2" /\ written
    /\ \E d \in Days :
          /\ day_demand[d] = "Green"
          /\ Cardinality(StaffAvailableOn(d)) > 10
          /\ Cardinality(StaffAssignedOn(d)) = 10
          /\ \E r \in roster : r.Day = d /\ r.Shift \in ManagerShiftNames
          /\ \E r \in roster : r.Day = d /\ r.Shift \in CrewShiftNames
          /\ \E r \in roster : r.Day = d /\ r.Shift = "Flex"


(***************************************************************************)
(* C25.  Overstaffing of a slot is forbidden.                              *)
(***************************************************************************)

\* The staff of role category t[3] (or Both) the roster has on shift t[2] of
\* day t[1], and the staff of that category that could work it.
RosterEligible(t) ==
    {r.Staff : r \in {q \in roster : q.Day = t[1] /\ q.Shift = t[2]
                                      /\ q.Role \in {t[3], "Both"}}}

SlotEligible(t) ==
    {k[1] : k \in {j \in x : j[2] = t[1] /\ j[3] = t[2]
                              /\ Role_(j[1]) \in {t[3], "Both"}}}

\* The (day, crew shift, role category) with a requirement.
CrewSlots == {t \in RequiredSlots : t[3] \in {"FOH", "BOH"}}

\* C25: in every roster roster_v2.py returns, for each (day, crew shift,
\* role category) with a requirement and at least one eligible candidate,
\* the number of assigned candidates (FOH-or-Both for FOH, BOH-or-Both for
\* BOH) is at most the required headcount.
C25_NoOverstaffing ==
    (variant = "roster_v2" /\ written) =>
        \A t \in CrewSlots :
            SlotEligible(t) # {} =>
                Cardinality(RosterEligible(t)) <= RequiredOf(t)

\* roster_v2.py has returned a roster in which a slot with more eligible
\* candidates than its requirement is staffed exactly to the requirement.
C25_Witness ==
    /\ variant = "roster_v2" /\ written
    /\ \E t \in CrewSlots :
          /\ Cardinality(SlotEligible(t)) > RequiredOf(t)
          /\ Cardinality(RosterEligible(t)) = RequiredOf(t)


(***************************************************************************)
(* C26.  What a Both-role assignment and a Flex assignment count toward.   *)
(***************************************************************************)

\* The role-shortfall terms and the daily-headcount terms of the model.
ShortfallTerms == {s \in model.soft : s.name = "understaffed"}

HeadcountTerms == {s \in model.soft : s.name = "min_staff_short"}

\* The terms of S whose slack the assignment k of the solution lowers by 1:
\* without k the slack would be one higher.
LoweredBy(k, S) ==
    {s \in S : SlackValue(s, sol) = SlackValue(s, sol \ {k}) - 1}

\* The terms of S whose slack is the same with and without k.
UntouchedBy(k, S) ==
    {s \in S : SlackValue(s, sol) = SlackValue(s, sol \ {k})}

\* C26: in a solution of roster_v2.py, the assignment of a Both-role member
\* to a crew shift lowers by 1 the FOH shortfall slack and the BOH shortfall
\* slack of that day and shift, each where the tier requires the category;
\* a Flex assignment lowers no role-shortfall slack and lowers the daily
\* headcount slack of its day by 1.
C26_BothAndFlexCounting ==
    (variant = "roster_v2" /\ Solved /\ status = "OPTIMAL") =>
        \A k \in sol :
            /\ (Role_(k[1]) = "Both" /\ k[3] \in CrewShiftNames) =>
                  {s.key : s \in LoweredBy(k, ShortfallTerms)} =
                      {t \in CrewSlots : t[1] = k[2] /\ t[2] = k[3]}
            /\ k[3] = "Flex" =>
                  /\ UntouchedBy(k, ShortfallTerms) = ShortfallTerms
                  /\ {s.key : s \in LoweredBy(k, HeadcountTerms)} = {<<k[2]>>}

\* roster_v2.py has returned a solution with a Both-role member on a crew
\* shift that requires FOH and BOH staff, and with a Flex assignment.
C26_Witness ==
    /\ variant = "roster_v2" /\ Solved /\ status = "OPTIMAL"
    /\ \E k \in sol :
          /\ Role_(k[1]) = "Both" /\ k[3] \in CrewShiftNames
          /\ <<k[2], k[3], "FOH">> \in CrewSlots
          /\ <<k[2], k[3], "BOH">> \in CrewSlots
    /\ \E k \in sol : k[3] = "Flex"

=============================================================================
